---- MODULE Spec2Model ----
(***************************************************************************)
(* require-gpu (src/src/require_gpu/cli.py): wait until n GPUs have no     *)
(* attached process, pick n of them, print an export line for              *)
(* CUDA_VISIBLE_DEVICES, optionally send e-mail and run a command.         *)
(*                                                                         *)
(* The state is the parsed options, the locals of wait_for_gpus and        *)
(* success, the position of the single thread of control (pc) and the      *)
(* effects the process has had on the outside: the two output streams,     *)
(* the queries made, the sleeps, the e-mails sent and the commands run.    *)
(***************************************************************************)
EXTENDS Integers, Sequences, FiniteSets, TLC

\* ------------------------------------------------------------------ bounds
MaxGpus == 4        \* a snapshot lists 0..MaxGpus GPUs
MaxN == 2           \* the requested count ranges over -1..MaxN
MaxInterval == 1    \* the interval (minutes) ranges over -1..MaxInterval
MaxPolls == 2       \* insufficient polls followed by a sleep in one run

\* --------------------------------------------------------------- constants
ExitCancelled == 3
ExitNoResult == 127
SecondsPerMinute == 60

VARIABLES
    n, interval, once, first, quiet, email, command,   \* options (cli.py 112)
    environ,       \* os.environ of the tool's own process
    pc,            \* position of the thread of control
    first_time,    \* local of wait_for_gpus
    query,         \* the last snapshot new_query returned
    ret,           \* what wait_for_gpus returned: "pending", "None", "query"
    ids,           \* local of success: the selection
    result,        \* local of success: <<returncode>>, or <<>> for None
    queries,       \* number of calls of GPUStatCollection.new_query
    polled,        \* history: for each snapshot, whether it had >= n free GPUs
    sleeps,        \* the durations (seconds) sleep was called with
    stdout, stderr,
    mails,         \* the messages handed to SMTP, in order
    runs,          \* the child processes run, in order
    exitCode,      \* the process's exit status, -1 while it runs
    outcome        \* how the process ended

options == <<n, interval, once, first, quiet, email, command>>
vars == <<n, interval, once, first, quiet, email, command, environ, pc,
          first_time, query, ret, ids, result, queries, polled, sleeps,
          stdout, stderr, mails, runs, exitCode, outcome>>

\* ------------------------------------------------------------ input domains
\* type=int accepts any integer, type=float any number: both signs included
NValues == (-1)..MaxN
Intervals == (-1)..MaxInterval
Recipients == {<<>>, <<"a@example.org">>}
Commands == {<<>>, <<"echo ok">>}
ReturnCodes == {0, 1, ExitCancelled, ExitNoResult}

\* a GPU's process list: the code reads only whether it is empty (cli.py 51)
ProcessLists == {<<>>, <<"python">>}
\* gpustat numbers the GPUs of a snapshot 0, 1, 2, ... in order
Snapshots ==
    UNION {{[i \in 1..k |-> [index |-> i - 1, processes |-> ps[i]]] :
                ps \in [1..k -> ProcessLists]} : k \in 0..MaxGpus}

\* ------------------------------------------------------------ pure helpers
RECURSIVE SelectSeq2(_, _)
\* the list comprehension of available_gpus (cli.py 51): keeps order
SelectSeq2(s, i) ==
    IF i > Len(s) THEN <<>>
    ELSE IF Len(s[i].processes) = 0
         THEN <<s[i]>> \o SelectSeq2(s, i + 1)
         ELSE SelectSeq2(s, i + 1)

available_gpus(q) == SelectSeq2(q, 1)

\* raw_ids of success (cli.py 89)
raw_ids(q) == [i \in 1..Len(available_gpus(q)) |-> available_gpus(q)[i].index]

\* Python's s[:k]: a negative k counts from the end
Slice(s, k) ==
    IF k >= 0
    THEN SubSeq(s, 1, IF k < Len(s) THEN k ELSE Len(s))
    ELSE SubSeq(s, 1, IF Len(s) + k > 0 THEN Len(s) + k ELSE 0)

\* all sequences of k distinct positions of s, mapped to their elements
Samples(s, k) ==
    {[i \in 1..k |-> s[p[i]]] :
        p \in {f \in [1..k -> 1..Len(s)] :
                  \A a, b \in 1..k : a # b => f[a] # f[b]}}

\* random.sample(population, k) raises ValueError for k < 0 or k > len
SampleRaises(s, k) == k < 0 \/ k > Len(s)

\* the values ids can take at cli.py 90
Selections(raw, k, firstMode) ==
    IF firstMode THEN {Slice(raw, k)}
    ELSE IF SampleRaises(raw, k) THEN {} ELSE Samples(raw, k)

RECURSIVE JoinFrom(_, _)
\* ','.join(map(str, ids)) (cli.py 91)
JoinFrom(s, i) ==
    IF i > Len(s) THEN ""
    ELSE IF i = Len(s) THEN ToString(s[i])
         ELSE ToString(s[i]) \o "," \o JoinFrom(s, i + 1)

ids_string(s) == JoinFrom(s, 1)

export(s) == "export CUDA_VISIBLE_DEVICES=" \o ids_string(s)

\* the test of wait_for_gpus (cli.py 58)
Sufficient(q, k) == Len(available_gpus(q)) >= k

\* `if query:` (cli.py 118): None is false, and so is a collection of
\* length 0 (GPUStatCollection defines __len__)
Truthy(r, q) == r = "query" /\ Len(q) > 0

\* a variant that reports any failure of the command as 1
ExitStatusFlattened(r) == IF r = <<>> THEN 0 ELSE IF r[1] = 0 THEN 0 ELSE 1

\* `result or 0` (cli.py 120)
ExitStatus(r) == IF r = <<>> THEN 0 ELSE r[1]

\* sleep raises ValueError for a negative length
SleepRaises(secs) == secs < 0

\* ---------------------------------------------------------------- Init
Init ==
    /\ n \in NValues
    /\ interval \in Intervals
    /\ once \in BOOLEAN
    /\ first \in BOOLEAN
    /\ quiet \in BOOLEAN
    /\ email \in Recipients
    /\ command \in Commands
    /\ environ = [CUDA_VISIBLE_DEVICES |-> "unset"]
    /\ pc = "poll"
    /\ first_time = TRUE
    /\ query = <<>>
    /\ ret = "pending"
    /\ ids = <<>>
    /\ result = <<>>
    /\ queries = 0
    /\ polled = <<>>
    /\ sleeps = <<>>
    /\ stdout = <<>>
    /\ stderr = <<>>
    /\ mails = <<>>
    /\ runs = <<>>
    /\ exitCode = -1
    /\ outcome = "running"

\* the interpreter ends with status 1 on an uncaught exception; on an
\* uncaught KeyboardInterrupt it ends with 1 or, re-raising SIGINT, 130
UncaughtExit == {1}
UncaughtInterruptExit == {1, 130}

Exit(code, how) ==
    /\ pc' = "exited"
    /\ exitCode' = code
    /\ outcome' = how

Uncaught(how) ==
    /\ \E c \in UncaughtExit : Exit(c, how)
    /\ stderr' = Append(stderr, "Traceback")

\* ------------------------------------------------------- wait_for_gpus
\* variants of WaitStep: one ignores --once, one wants more than n free GPUs
WaitStepNoOnce(q, k, onceFlag) ==
    IF Sufficient(q, k) THEN "return_query" ELSE "wait"

WaitStepStrict(q, k, onceFlag) ==
    IF Len(available_gpus(q)) > k THEN "return_query"
    ELSE IF onceFlag THEN "return_none" ELSE "wait"

\* what one iteration does with its snapshot (cli.py 58-61)
WaitStep(q, k, onceFlag) ==
    IF Sufficient(q, k) THEN "return_query"
    ELSE IF onceFlag THEN "return_none" ELSE "wait"

\* one iteration up to the return or the decision to wait (cli.py 56-61)
Poll ==
    /\ pc = "poll"
    /\ \E s \in Snapshots :
        /\ query' = s
        /\ queries' = queries + 1
        /\ polled' = Append(polled, Len(available_gpus(s)) >= n)
        /\ CASE WaitStep(s, n, once) = "return_query" ->
                    ret' = "query" /\ pc' = "returned"
             [] WaitStep(s, n, once) = "return_none" ->
                    ret' = "None" /\ pc' = "returned"
             [] OTHER ->
                    /\ Len(sleeps) < MaxPolls
                    /\ ret' = ret
                    /\ pc' = IF first_time THEN "status" ELSE "sleep"
    /\ UNCHANGED <<options, environ, first_time, ids, result, sleeps, stdout,
                   stderr, mails, runs, exitCode, outcome>>

\* new_query raises: nothing catches it
QueryFails ==
    /\ pc = "poll"
    /\ queries' = queries + 1
    /\ Uncaught("query_error")
    /\ UNCHANGED <<options, polled, environ, first_time, query, ret, ids, result,
                   sleeps, stdout, mails, runs>>

StatusLine(k, i) ==
    "Waiting for " \o ToString(k) \o " free GPUs, checking every "
        \o ToString(i) \o " minutes ..."

\* the one-time status line (cli.py 62-65)
PrintStatus ==
    /\ pc = "status"
    /\ stderr' = Append(stderr, StatusLine(n, interval))
    /\ first_time' = FALSE
    /\ pc' = "sleep"
    /\ UNCHANGED <<options, polled, environ, query, ret, ids, result, queries, sleeps,
                   stdout, mails, runs, exitCode, outcome>>

\* sleep(60 * interval) (cli.py 66)
Sleep ==
    /\ pc = "sleep"
    /\ ~SleepRaises(SecondsPerMinute * interval)
    /\ sleeps' = Append(sleeps, SecondsPerMinute * interval)
    /\ pc' = "poll"
    /\ UNCHANGED <<options, polled, environ, first_time, query, ret, ids, result,
                   queries, stdout, stderr, mails, runs, exitCode, outcome>>

SleepFails ==
    /\ pc = "sleep"
    /\ SleepRaises(SecondsPerMinute * interval)
    /\ Uncaught("sleep_error")
    /\ UNCHANGED <<options, polled, environ, first_time, query, ret, ids, result,
                   queries, sleeps, stdout, mails, runs>>

InWaitLoop == pc \in {"poll", "status", "sleep"}

\* a variant without the except clause: the interrupt goes uncaught
InterruptUncaught ==
    /\ InWaitLoop
    /\ \E c \in UncaughtInterruptExit : Exit(c, "killed")
    /\ stderr' = Append(stderr, "Traceback")
    /\ UNCHANGED <<options, polled, environ, first_time, query, ret, ids,
                   result, queries, sleeps, stdout, mails, runs>>

\* KeyboardInterrupt inside the try of main (cli.py 113-117)
Interrupt ==
    /\ InWaitLoop
    /\ stderr' = Append(stderr, "Cancelled.")
    /\ Exit(ExitCancelled, "cancelled")
    /\ UNCHANGED <<options, polled, environ, first_time, query, ret, ids, result,
                   queries, sleeps, stdout, mails, runs>>

\* ---------------------------------------------------------------- main
\* `if query:` (cli.py 118-122)
Dispatch ==
    /\ pc = "returned"
    /\ IF Truthy(ret, query)
       THEN pc' = "report" /\ UNCHANGED <<exitCode, outcome>>
       ELSE Exit(ExitNoResult, "noresult")
    /\ UNCHANGED <<options, polled, environ, first_time, query, ret, ids, result,
                   queries, sleeps, stdout, stderr, mails, runs>>

\* ------------------------------------------------------------- success
\* cli.py 87-88
Report ==
    /\ pc = "report"
    /\ stderr' = IF quiet THEN stderr ELSE Append(stderr, "gpustat")
    /\ pc' = "select"
    /\ UNCHANGED <<options, polled, environ, first_time, query, ret, ids, result,
                   queries, sleeps, stdout, mails, runs, exitCode, outcome>>

\* the Selector and the export line (cli.py 89-93)
Select ==
    /\ pc = "select"
    /\ \E s \in Selections(raw_ids(query), n, first) :
        /\ ids' = s
        /\ stdout' = Append(stdout, export(s))
    /\ pc' = "mail"
    /\ UNCHANGED <<options, polled, environ, first_time, query, ret, result, queries,
                   sleeps, stderr, mails, runs, exitCode, outcome>>

\* sample raises ValueError (cli.py 90)
SelectFails ==
    /\ pc = "select"
    /\ Selections(raw_ids(query), n, first) = {}
    /\ Uncaught("sample_error")
    /\ UNCHANGED <<options, polled, environ, first_time, query, ret, ids, result,
                   queries, sleeps, stdout, mails, runs>>

\* the message of the first mail_query call (cli.py 71-82, 95)
AvailableMail(q, to, suffix) ==
    [subject |-> ToString(Len(available_gpus(q))) \o " GPUs on host available",
     to |-> to,
     text |-> "gpustat\n\n" \o suffix]

\* cli.py 94-95
MailAvailable ==
    /\ pc = "mail"
    /\ mails' = IF email # <<>>
                THEN Append(mails, AvailableMail(query, email, export(ids)))
                ELSE mails
    /\ pc' = "command"
    /\ UNCHANGED <<options, polled, environ, first_time, query, ret, ids, result,
                   queries, sleeps, stdout, stderr, runs, exitCode, outcome>>

\* env = environ.copy(); env['CUDA_VISIBLE_DEVICES'] = ids_string (97-98)
ChildEnv(e, s) == [e EXCEPT !.CUDA_VISIBLE_DEVICES = s]
\* a variant that writes os.environ itself instead of a copy
OwnEnvWritten(e, s) == [e EXCEPT !.CUDA_VISIBLE_DEVICES = s]

\* what the assignment at cli.py 98 leaves in os.environ: it writes the copy
OwnEnv(e, s) == e

\* subprocess.run, blocking until the child ends (cli.py 96-102)
RunCommand ==
    /\ pc = "command"
    /\ IF command # <<>>
       THEN /\ \E rc \in ReturnCodes :
                /\ runs' = Append(runs,
                      [args |-> command[1],
                       shell |-> Len(command) = 1,
                       env |-> ChildEnv(environ, ids_string(ids)),
                       returncode |-> rc])
                /\ result' = <<rc>>
            /\ environ' = OwnEnv(environ, ids_string(ids))
            /\ pc' = "mail2"
       ELSE /\ UNCHANGED <<runs, result, environ>>
            /\ pc' = "exit"
    /\ UNCHANGED <<options, polled, first_time, query, ret, ids, queries, sleeps,
                   stdout, stderr, mails, exitCode, outcome>>

\* cli.py 104
Verdict(rc) ==
    IF rc = 0 THEN "succeeded" ELSE "failed (" \o ToString(rc) \o ")"

\* the message of the second mail_query call (cli.py 105-107)
ResultMail(run, to, s) ==
    [subject |-> run.args \o " " \o Verdict(run.returncode),
     to |-> to,
     text |-> "Command: " \o run.args \o " Result: " \o Verdict(run.returncode)
                \o " Host: host GPUs: " \o s]

\* a variant that reports only a command that succeeded
SendsResultMailOnSuccess(to, rc) == to # <<>> /\ rc = 0

\* whether the second e-mail is sent (cli.py 103)
SendsResultMail(to, rc) == to # <<>>

\* cli.py 103-108
MailResult ==
    /\ pc = "mail2"
    /\ mails' = IF SendsResultMail(email, result[1])
                THEN Append(mails,
                        ResultMail(runs[Len(runs)], email, ids_string(ids)))
                ELSE mails
    /\ pc' = "exit"
    /\ UNCHANGED <<options, polled, environ, first_time, query, ret, ids, result,
                   queries, sleeps, stdout, stderr, runs, exitCode, outcome>>

\* SMTP fails: nothing catches it (cli.py 83-84)
MailFails ==
    /\ pc \in {"mail", "mail2"}
    /\ email # <<>>
    /\ Uncaught("mail_error")
    /\ UNCHANGED <<options, polled, environ, first_time, query, ret, ids, result,
                   queries, sleeps, stdout, mails, runs>>

\* sys.exit(result or 0) (cli.py 120)
MainExit ==
    /\ pc = "exit"
    /\ Exit(ExitStatus(result), "success")
    /\ UNCHANGED <<options, polled, environ, first_time, query, ret, ids, result,
                   queries, sleeps, stdout, stderr, mails, runs>>

\* KeyboardInterrupt outside the try of main: nothing catches it
Kill ==
    /\ pc \in {"returned", "report", "select", "mail", "command", "mail2",
               "exit"}
    /\ \E c \in UncaughtInterruptExit : Exit(c, "killed")
    /\ stderr' = Append(stderr, "Traceback")
    /\ UNCHANGED <<options, polled, environ, first_time, query, ret, ids, result,
                   queries, sleeps, stdout, mails, runs>>

Next ==
    \/ Poll
    \/ QueryFails
    \/ PrintStatus
    \/ Sleep
    \/ SleepFails
    \/ Interrupt
    \/ Dispatch
    \/ Report
    \/ Select
    \/ SelectFails
    \/ MailAvailable
    \/ RunCommand
    \/ MailResult
    \/ MailFails
    \/ MainExit
    \/ Kill

Spec == Init /\ [][Next]_vars

\* ===================================================================
\* Properties
\* ===================================================================
Last(s) == s[Len(s)]
NoEffects == stdout = <<>> /\ mails = <<>> /\ runs = <<>>
\* the run ended by an event outside the program's own control flow
EndedByFault == outcome \in {"killed", "query_error", "mail_error"}

TypeOK ==
    /\ pc \in {"poll", "status", "sleep", "returned", "report", "select",
               "mail", "command", "mail2", "exit", "exited"}
    /\ ret \in {"pending", "None", "query"}
    /\ outcome \in {"running", "success", "noresult", "cancelled", "killed",
                    "query_error", "sleep_error", "sample_error",
                    "mail_error"}
    /\ query \in Snapshots
    /\ (pc = "exited") = (outcome # "running")
    /\ (pc = "exited") = (exitCode # -1)

\* C1: in one-shot mode a snapshot with fewer than n free GPUs makes
\* wait_for_gpus return None after exactly one query and no sleep, whatever
\* the interval; nothing is printed on stdout, no e-mail is sent, no command
\* is run, and the process exits with 127.
C1_OneShotInsufficient ==
    (once /\ queries >= 1 /\ outcome # "query_error" /\ ~Sufficient(query, n))
    => /\ ret = "None"
       /\ queries = 1
       /\ sleeps = <<>>
       /\ NoEffects
       /\ pc \in {"returned", "exited"}
       /\ pc = "exited" => outcome \in {"noresult", "killed"}
       /\ outcome = "noresult" => exitCode = 127

\* a one-shot run with a negative interval ended with 127
C1_Witness ==
    /\ once /\ interval < 0 /\ n = 2
    /\ Len(available_gpus(query)) = 1
    /\ pc = "exited" /\ exitCode = 127

\* C2: whenever wait_for_gpus returns a snapshot (available count >= n, for
\* any n the parser accepts and any snapshot, the empty one included) the
\* run takes the success path: the export line is printed exactly once and
\* the process does not exit with 127 of its own; 127 is the exit code only
\* of a one-shot run whose snapshot had fewer than n free GPUs.
C2_SufficientMeansSuccess ==
    /\ (pc = "exited" /\ ret = "query" /\ ~EndedByFault)
        => /\ outcome = "success"
           /\ stdout = <<export(ids)>>
           /\ exitCode = 127 => (runs # <<>> /\ runs[1].returncode = 127)
    /\ outcome = "noresult" => (once /\ ~Sufficient(query, n))

\* C3: on the success path the exit code is the command's return code when
\* a command is configured, whatever it is, and 0 when none is.
C3_ExitCodeIsCommands ==
    outcome = "success"
    => /\ Len(runs) = (IF command # <<>> THEN 1 ELSE 0)
       /\ exitCode = (IF command # <<>> THEN runs[1].returncode ELSE 0)

\* a failing command's code reached the exit code
C3_Witness ==
    /\ outcome = "success" /\ command # <<>>
    /\ runs[1].returncode = 1 /\ exitCode = 1

\* C4: an interrupt can arrive at every point of the wait loop (query,
\* status print, sleep), is always caught there, and ends the run with the
\* cancellation notice on stderr and exit code 3, with no export line, no
\* e-mail and no command; the program itself exits with 3 on no other path
\* (only a command's own return code 3 gives the same status).
C4_InterruptCancels ==
    /\ pc \in {"poll", "status", "sleep"} => ENABLED Interrupt
    /\ outcome = "killed" => ret # "pending"
    /\ outcome = "cancelled"
        => /\ exitCode = 3
           /\ Last(stderr) = "Cancelled."
           /\ NoEffects
           /\ ret = "pending"
    /\ exitCode = 3
        => \/ outcome = "cancelled"
           \/ outcome = "success" /\ runs # <<>> /\ runs[1].returncode = 3
    /\ outcome = "noresult" => exitCode = 127

\* an interrupt during the sleep of the second iteration
C4_Witness ==
    /\ outcome = "cancelled" /\ exitCode = 3
    /\ Len(polled) = 2 /\ Len(sleeps) = 1 /\ ~first_time

\* the indices of the GPUs of q whose process list is empty
FreeIndices(q) == {q[i].index : i \in {j \in 1..Len(q) : q[j].processes = <<>>}}
Selected == stdout # <<>>

\* C5: the selection (first or random mode, any requested n) has at most n
\* indices (none when n is not positive), at most as many as the snapshot
\* has free GPUs, only indices of free GPUs of the snapshot wait_for_gpus
\* returned, and no duplicates.
C5_SelectionWithinAvailable ==
    Selected
    => /\ Len(ids) <= (IF n < 0 THEN 0 ELSE n)
       /\ Len(ids) <= Cardinality(FreeIndices(query))
       /\ \A i \in 1..Len(ids) : ids[i] \in FreeIndices(query)
       /\ \A i, j \in 1..Len(ids) : i # j => ids[i] # ids[j]

\* the first k elements of s; none for k <= 0
FirstN(s, k) ==
    [i \in 1..(IF k < 0 THEN 0 ELSE IF k < Len(s) THEN k ELSE Len(s)) |-> s[i]]

\* s lists exactly the members of S, in increasing order
IsSortedListingOf(s, S) ==
    /\ {s[i] : i \in 1..Len(s)} = S
    /\ \A i, j \in 1..Len(s) : i < j => s[i] < s[j]

ExampleSnapshot ==
    [i \in 1..4 |-> [index |-> i - 1,
                     processes |-> IF i = 3 THEN <<"python">> ELSE <<>>]]

\* C6: in first mode the selection is the indices of the first n free GPUs
\* of the snapshot, in snapshot order (the filter keeps exactly the records
\* with an empty process list, in order), and the export line is determined
\* by snapshot and n; GPUs 0..3 with GPU 2 busy and n = 2 give
\* "export CUDA_VISIBLE_DEVICES=0,1".
C6_FirstModeTakesFirstN ==
    /\ IsSortedListingOf(raw_ids(query), FreeIndices(query))
    /\ (first /\ Selected)
        => /\ ids = FirstN(raw_ids(query), n)
           /\ stdout = <<export(FirstN(raw_ids(query), n))>>
    /\ (first /\ Selected /\ query = ExampleSnapshot /\ n = 2)
        => stdout = <<"export CUDA_VISIBLE_DEVICES=0,1">>

AllFalse(s) == \A i \in 1..Len(s) : ~s[i]

\* C7: wait_for_gpus returns the snapshot of the first poll with >= n free
\* GPUs and nothing queries again afterwards; there is no sleep before the
\* first query nor after the successful one, every insufficient poll of a
\* waiting run is followed by one sleep of 60 * interval seconds before the
\* next query, and a first snapshot that suffices gives no status line.
C7_FirstSufficientPoll ==
    /\ pc = "poll"
        => /\ Len(sleeps) = Len(polled) /\ queries = Len(polled)
           /\ AllFalse(polled)
    /\ pc \in {"status", "sleep"}
        => /\ Len(sleeps) = Len(polled) - 1 /\ queries = Len(polled)
           /\ AllFalse(polled)
    /\ ret = "query"
        => /\ Last(polled) /\ AllFalse(SubSeq(polled, 1, Len(polled) - 1))
           /\ Len(available_gpus(query)) >= n
           /\ queries = Len(polled)
           /\ Len(sleeps) = Len(polled) - 1
           /\ pc = "returned"
                => stderr = (IF Len(polled) = 1 THEN <<>>
                             ELSE <<StatusLine(n, interval)>>)
    /\ \A i \in 1..Len(sleeps) : sleeps[i] = 60 * interval
    /\ once => sleeps = <<>>

\* the third poll was the first sufficient one: two sleeps, one status line
C7_Witness ==
    /\ ret = "query" /\ pc = "returned"
    /\ polled = <<FALSE, FALSE, TRUE>>
    /\ sleeps = <<60, 60>>
    /\ Len(stderr) = 1

\* C8: a configured command is run exactly once on success, after the
\* export line was printed, with CUDA_VISIBLE_DEVICES in the child's
\* environment equal to the comma-joined selection of the export line; the
\* tool's own environment is never changed.
C8_CommandGetsSelection ==
    /\ environ = [CUDA_VISIBLE_DEVICES |-> "unset"]
    /\ Len(stdout) <= 1 /\ Len(runs) <= 1
    /\ runs # <<>>
        => /\ command # <<>>
           /\ Len(stdout) = 1
           /\ stdout[1] = "export CUDA_VISIBLE_DEVICES="
                              \o runs[1].env.CUDA_VISIBLE_DEVICES
           /\ runs[1].env.CUDA_VISIBLE_DEVICES = ids_string(ids)
           /\ runs[1].args = command[1]
           /\ runs[1].shell
    /\ (outcome = "success" /\ command # <<>>) => Len(runs) = 1

\* a random selection of two GPUs reached the child
C8_Witness ==
    /\ outcome = "success" /\ ~first /\ n = 2
    /\ Len(runs) = 1
    /\ runs[1].env.CUDA_VISIBLE_DEVICES = "3,1"
    /\ stdout = <<"export CUDA_VISIBLE_DEVICES=3,1">>

\* C9: export line, then the availability e-mail (if recipients), then the
\* command run to its end (if configured), then the second e-mail (if
\* both); the second e-mail is sent whatever the command returned and never
\* before it ended; a successful run sends 0, 1 or 2 e-mails accordingly.
C9_NotifierOrder ==
    /\ mails # <<>>
        => /\ Len(stdout) = 1 /\ email # <<>>
           /\ mails[1] = AvailableMail(query, email, stdout[1])
    /\ (pc = "mail") => (Len(stdout) = 1 /\ mails = <<>> /\ runs = <<>>)
    /\ (pc = "command") =>
           (Len(mails) = (IF email # <<>> THEN 1 ELSE 0) /\ runs = <<>>)
    /\ (pc = "mail2") =>
           (Len(mails) = (IF email # <<>> THEN 1 ELSE 0) /\ Len(runs) = 1)
    /\ Len(mails) = 2
        => /\ Len(runs) = 1
           /\ mails[2].subject =
                 (IF runs[1].returncode = 0 THEN "echo ok succeeded"
                  ELSE "echo ok failed ("
                           \o ToString(runs[1].returncode) \o ")")
    /\ outcome = "success"
        => Len(mails) = (IF email = <<>> THEN 0
                         ELSE IF command = <<>> THEN 1 ELSE 2)

\* two e-mails around a command that failed
C9_Witness ==
    /\ outcome = "success" /\ Len(mails) = 2
    /\ runs[1].returncode = 127
    /\ mails[2].subject = "echo ok failed (127)"

\* C10: a waiting (not one-shot) run that is neither interrupted nor hit by
\* a query failure has no maximum attempt count: as long as every polled
\* snapshot has fewer than n free GPUs it does not end, so a run that has
\* ended polled a snapshot with at least n free GPUs.
C10_EndsOnlyOnSufficientPoll ==
    (~once /\ pc = "exited"
        /\ outcome \notin {"cancelled", "killed", "query_error"})
    => (polled # <<>> /\ Last(polled))

====
